---- MODULE Spec2Model ----
(***************************************************************************)
(* Model of src/firebase.py: a Streamlit inventory form over a Firestore   *)
(* collection.  Several browser sessions share one collection (store);     *)
(* each session has its own st.session_state: the recorded unsubscribe     *)
(* handle and the cached product list items_data that the snapshot         *)
(* callback keeps.  An add or an edit is a name query on the               *)
(* collection followed by a separate write, so the two are separate steps  *)
(* and other sessions may act in between.                                  *)
(*                                                                         *)
(* The model starts after a successful Firebase initialisation             *)
(* (firebase_initialized = True, lines 28-91) and takes the store to be    *)
(* reachable: the only store exception modelled is the one update() raises *)
(* for a missing document.  The server timestamp field, which no operation *)
(* reads, is left out of the documents.                                    *)
(***************************************************************************)
EXTENDS Integers, Sequences, FiniteSets, TLC

\* ------------------------------------------------------------------ bounds
MaxDocs == 2
MaxEdits == 1
MaxListeners == 2

Sessions == {"s1", "s2"}
Solo == "s1"
Ids == 1..MaxDocs
Handles == 1..MaxListeners

\* Inputs the widgets can deliver: text_input gives any string (not trimmed),
\* the number_input widgets give numbers >= 0 (min_value=0 / 0.0).  An offer
\* is the three numbers of one submission.  Names has the empty name, a name
\* of one space and two names that differ by a trailing space; Offers has a
\* price of zero, a price above the cost and a price below the cost.
Names == { <<>>, <<" ">>, <<"a">>, <<"a", " ">> }
Offers ==
  { [stock |-> 0, precio |-> 0, costo |-> 0],
    [stock |-> 1, precio |-> 1, costo |-> 0],
    [stock |-> 2, precio |-> 1, costo |-> 2] }

\* The plain inputs: the empty name and one name, one valid offer.
PlainNames == { <<>>, <<"a">> }
PlainOffers == { [stock |-> 1, precio |-> 1, costo |-> 0] }

MenuOptions == {"Ver Inventario", "Agregar Producto", "Editar Producto", "Eliminar Producto"}

VARIABLES
  store,      \* the Firestore collection: document id -> fields
  nextId,     \* ids the store has handed out so far, plus one
  edits,      \* edits accepted for writing so far (bound on the run length)
  unsub,      \* st.session_state.unsubscribe_inventory, per session (0 = None)
  active,     \* the subscriptions the store holds for each session
  snapq,      \* snapshots on their way to each session's callback
  cache,      \* st.session_state.items_data, per session
  pc,         \* where each session's running handler is
  req,        \* the arguments of the handler in flight
  ev          \* the step taken last: operation, arguments, store calls, result

vars == <<store, nextId, edits, unsub, active, snapq, cache, pc, req, ev>>

\* ------------------------------------------------------------ pure helpers
EmptyStore == [i \in {} |-> 0]

Fields(nombre, stock, precio, costo) ==
  [nombre |-> nombre, stock |-> stock, precio |-> precio, costo |-> costo]

NoReq == [id |-> 0, nombre |-> <<>>, stock |-> 0, precio |-> 0, costo |-> 0]

\* What a step shows of itself: the operation, the session, the document id
\* it is about, the name, price and cost submitted, the store calls it issued
\* and how it ended.
Event(op, s, id, nombre, precio, costo, calls, result) ==
  [op |-> op, s |-> s, id |-> id, nombre |-> nombre, precio |-> precio,
   costo |-> costo, calls |-> calls, result |-> result]

\* A step that is no form submission and no store write shows nothing.
Quiet == Event("none", Solo, 0, <<>>, 0, 0, <<>>, "none")

\* str.strip(): what the spec calls the trimmed name.
RECURSIVE StripLeft(_)
StripLeft(n) ==
  IF n # <<>> /\ Head(n) = " " THEN StripLeft(Tail(n)) ELSE n

RECURSIVE StripRight(_)
StripRight(n) ==
  IF n # <<>> /\ n[Len(n)] = " " THEN StripRight(SubSeq(n, 1, Len(n) - 1)) ELSE n

Trim(n) == StripRight(StripLeft(n))

\* Python's string order, by code point: " " < "a" < "b", a prefix first.
CharOrd(c) == CASE c = " " -> 32 [] c = "a" -> 97 [] c = "b" -> 98

RECURSIVE NameLess(_, _)
NameLess(x, y) ==
  IF x = <<>> THEN y # <<>>
  ELSE IF y = <<>> THEN FALSE
  ELSE IF Head(x) = Head(y) THEN NameLess(Tail(x), Tail(y))
  ELSE CharOrd(Head(x)) < CharOrd(Head(y))


Max(S) == CHOOSE x \in S : \A y \in S : y <= x

\* ------------------------------------------------- the store (Firestore)
\* Mutant of NameQuery: the name is looked up in the session's cached list.
NameQueryCached(s, nombre) ==
  {cache[s][k].id : k \in {x \in 1..Len(cache[s]) : cache[s][x].nombre = nombre}}

\* col_ref.where('nombre', '==', nombre).stream(): the ids of the documents
\* whose name is exactly nombre.  The session gives the client (db) the
\* query goes through.
NameQuery(s, nombre) == {i \in DOMAIN store : store[i].nombre = nombre}

\* col_ref.add(item_data): a new document under a fresh id.
DocAdd(st, id, data) ==
  [i \in (DOMAIN st) \cup {id} |-> IF i = id THEN data ELSE st[i]]

\* Mutant of DocUpdate: set() in place of update(), which creates the document.
DocUpdateUpsert(st, id, data) == [ok |-> TRUE, st |-> DocAdd(st, id, data)]

\* item_ref.update(item_data): changes an existing document; for a missing
\* one it raises (NotFound), which the handler's except turns into False.
DocUpdate(st, id, data) ==
  IF id \in DOMAIN st
    THEN [ok |-> TRUE, st |-> [st EXCEPT ![id] = data]]
    ELSE [ok |-> FALSE, st |-> st]

\* col_ref.document(item_id).delete(): no error for a missing document.
DocDelete(st, id) == [i \in (DOMAIN st) \ {id} |-> st[i]]

\* A committed write reaches every session that holds a subscription as a new
\* full snapshot of the collection.
Notify(q, act, st) ==
  [t \in Sessions |-> IF act[t] # {} THEN Append(q[t], st) ELSE q[t]]

\* ------------------------------------------------ the snapshot callback
\* on_snapshot, lines 184-199: one row per document, the document's fields
\* plus its id, sorted by nombre (documents arrive in id order).
\* Mutant of Row: the row does not carry the document's id.
RowWithoutId(st, i) ==
  [id |-> 0, nombre |-> st[i].nombre, stock |-> st[i].stock,
   precio |-> st[i].precio, costo |-> st[i].costo]

Row(st, i) ==
  [id |-> i, nombre |-> st[i].nombre, stock |-> st[i].stock,
   precio |-> st[i].precio, costo |-> st[i].costo]

RowBefore(r, q) ==
  NameLess(r.nombre, q.nombre) \/ (r.nombre = q.nombre /\ r.id < q.id)

RECURSIVE SortByNombre(_)
SortByNombre(R) ==
  IF R = {} THEN <<>>
  ELSE LET first == CHOOSE r \in R : \A q \in R \ {r} : RowBefore(r, q)
       IN <<first>> \o SortByNombre(R \ {first})

OnSnapshotRows(snap) == SortByNombre({Row(snap, i) : i \in DOMAIN snap})

\* ------------------------------------------------ the session's listener
Lst(s) == [unsub |-> unsub[s], active |-> active[s], snapq |-> snapq[s]]

Kept(s) == IF unsub[s] # 0 THEN active[s] \ {unsub[s]} ELSE active[s]

FreeHandle(A) == CHOOSE h \in Handles \ A : \A k \in Handles \ A : h <= k

\* Mutant of SetupRealtimeListener: the new listener's handle is not recorded.
SetupUnrecorded(s) ==
  LET h == FreeHandle(Kept(s))
  IN [unsub |-> 0, active |-> Kept(s) \cup {h}, snapq |-> Append(snapq[s], store)]

\* setup_realtime_listener, lines 170-210: unsubscribe the recorded listener,
\* subscribe a new one (the store answers with a first snapshot) and record
\* its handle.
SetupRealtimeListener(s) ==
  LET h == FreeHandle(Kept(s))
  IN [unsub |-> h, active |-> Kept(s) \cup {h}, snapq |-> Append(snapq[s], store)]

\* The screens' guard, lines 219-220, 271-272, 319-320.
EnsureListener(s) == IF unsub[s] = 0 THEN SetupRealtimeListener(s) ELSE Lst(s)

\* What running the selected screen does to the listener: the add form does
\* not touch it, the other three ensure it.
RenderScreen(s, m) == IF m = "Agregar Producto" THEN Lst(s) ELSE EnsureListener(s)

\* The model's subscription handles are bounded: the screen can run when it
\* subscribes nothing or a handle is left.
HandleLeft(s, m) == m = "Agregar Producto" \/ unsub[s] # 0 \/ Handles \ Kept(s) # {}

\* ----------------------------------------------------------- the forms
\* Mutant of FormValid: the name is not checked.
FormValidAnyName(nombre, precio, costo) == ~(precio <= 0 \/ costo < 0)

\* Mutant of FormValid: a price of zero passes.
FormValidZeroPrice(nombre, precio, costo) ==
  /\ nombre # <<>>
  /\ ~(precio < 0 \/ costo < 0)

\* The forms' validation, lines 258-261 and 306-309: "not nombre" is true of
\* the empty string only.
FormValid(nombre, precio, costo) ==
  /\ nombre # <<>>
  /\ ~(precio <= 0 \/ costo < 0)

\* product_name_to_id, lines 281 and 328: a dict built row by row, so of two
\* rows with one name the later one stays.
SelectableNames(c) == {c[i].nombre : i \in 1..Len(c)}

NameToId(c, n) == c[Max({i \in 1..Len(c) : c[i].nombre = n})].id

\* Mutant of OtherHasName: the document's own id is not excluded.
AnyHasName(s, id, nombre) == NameQuery(s, nombre) # {}

\* update_item_firestore's loop over the query's result, lines 134-138: a
\* document with the name and another id.
OtherHasName(s, id, nombre) == \E i \in NameQuery(s, nombre) : i # id

PendingAdds == Cardinality({t \in Sessions : pc[t] = "add_write"})

\* ---------------------------------------------------------------- Init
Init ==
  /\ store = EmptyStore
  /\ nextId = 1
  /\ edits = 0
  /\ unsub = [s \in Sessions |-> 0]
  /\ active = [s \in Sessions |-> {}]
  /\ snapq = [s \in Sessions |-> <<>>]
  /\ cache = [s \in Sessions |-> <<>>]
  /\ pc = [s \in Sessions |-> "idle"]
  /\ req = [s \in Sessions |-> NoReq]
  /\ ev = Quiet

\* ------------------------------------------------------------- actions
\* The radio's value is an input of every script run (line 365 assigns
\* current_menu_selection from the widget on each run), so the option a run
\* executes is a parameter of the run.

\* main(), lines 348-373: a script run with menu option m selected (the
\* first run, a change of menu or a plain rerun) runs that option's screen.
RunScreen(s, m) ==
  /\ pc[s] = "idle"
  /\ HandleLeft(s, m)
  /\ LET L == RenderScreen(s, m)
     IN /\ unsub' = [unsub EXCEPT ![s] = L.unsub]
        /\ active' = [active EXCEPT ![s] = L.active]
        /\ snapq' = [snapq EXCEPT ![s] = L.snapq]
  /\ ev' = Quiet
  /\ UNCHANGED <<store, nextId, edits, cache, pc, req>>

\* add_product_form's submit handler, lines 257-264, up to and including the
\* name query of add_item_firestore, lines 104-111.
AddSubmit(s, nombre, stock, precio, costo) ==
  /\ pc[s] = "idle"
  /\ IF ~FormValid(nombre, precio, costo)
       THEN /\ ev' = Event("add_submit", s, 0, nombre, precio, costo, <<>>, "invalid")
            /\ UNCHANGED <<pc, req>>
       ELSE IF NameQuery(s, nombre) # {}
         THEN /\ ev' = Event("add_submit", s, 0, nombre, precio, costo, <<"where">>, "duplicate")
              /\ UNCHANGED <<pc, req>>
         ELSE /\ nextId + PendingAdds <= MaxDocs
              /\ pc' = [pc EXCEPT ![s] = "add_write"]
              /\ req' = [req EXCEPT ![s] =
                           [id |-> 0, nombre |-> nombre, stock |-> stock,
                            precio |-> precio, costo |-> costo]]
              /\ ev' = Event("add_submit", s, 0, nombre, precio, costo, <<"where">>, "pending")
  /\ UNCHANGED <<store, nextId, edits, unsub, active, snapq, cache>>

\* add_item_firestore's write, lines 113-122.
AddWrite(s) ==
  /\ pc[s] = "add_write"
  /\ LET r == req[s]
     IN /\ store' = DocAdd(store, nextId, Fields(r.nombre, r.stock, r.precio, r.costo))
        /\ ev' = Event("add_write", s, nextId, r.nombre, r.precio, r.costo, <<"add">>, "ok")
  /\ nextId' = nextId + 1
  /\ snapq' = Notify(snapq, active, store')
  /\ pc' = [pc EXCEPT ![s] = "idle"]
  /\ req' = [req EXCEPT ![s] = NoReq]
  /\ UNCHANGED <<edits, unsub, active, cache>>

\* edit_product_form, lines 266-312, for the product selected by name sel,
\* up to and including the name query of update_item_firestore, lines
\* 130-138.
EditSubmit(s, sel, nombre, stock, precio, costo) ==
  /\ pc[s] = "idle"
  /\ HandleLeft(s, "Editar Producto")
  /\ cache[s] # <<>>
  /\ sel \in SelectableNames(cache[s])
  /\ LET L == EnsureListener(s)
         id == NameToId(cache[s], sel)
     IN /\ unsub' = [unsub EXCEPT ![s] = L.unsub]
        /\ active' = [active EXCEPT ![s] = L.active]
        /\ snapq' = [snapq EXCEPT ![s] = L.snapq]
        /\ IF ~FormValid(nombre, precio, costo)
             THEN /\ ev' = Event("edit_submit", s, id, nombre, precio, costo, <<>>, "invalid")
                  /\ UNCHANGED <<pc, req, edits>>
             ELSE IF OtherHasName(s, id, nombre)
               THEN /\ ev' = Event("edit_submit", s, id, nombre, precio, costo, <<"where">>, "duplicate")
                    /\ UNCHANGED <<pc, req, edits>>
               ELSE /\ edits < MaxEdits
                    /\ pc' = [pc EXCEPT ![s] = "edit_write"]
                    /\ req' = [req EXCEPT ![s] =
                                 [id |-> id, nombre |-> nombre, stock |-> stock,
                                  precio |-> precio, costo |-> costo]]
                    /\ edits' = edits + 1
                    /\ ev' = Event("edit_submit", s, id, nombre, precio, costo, <<"where">>, "pending")
  /\ UNCHANGED <<store, nextId, cache>>

\* update_item_firestore's write, lines 140-153.
EditWrite(s) ==
  /\ pc[s] = "edit_write"
  /\ LET r == req[s]
         u == DocUpdate(store, r.id, Fields(r.nombre, r.stock, r.precio, r.costo))
     IN /\ store' = u.st
        /\ snapq' = IF u.ok THEN Notify(snapq, active, u.st) ELSE snapq
        /\ ev' = Event("edit_write", s, r.id, r.nombre, r.precio, r.costo, <<"update">>,
                       IF u.ok THEN "ok" ELSE "error")
  /\ pc' = [pc EXCEPT ![s] = "idle"]
  /\ req' = [req EXCEPT ![s] = NoReq]
  /\ UNCHANGED <<nextId, edits, unsub, active, cache>>

\* delete_product_form, lines 314-343, with delete_item_firestore, lines
\* 156-167, for the product selected by name sel.
DeleteConfirm(s, sel) ==
  /\ pc[s] = "idle"
  /\ HandleLeft(s, "Eliminar Producto")
  /\ cache[s] # <<>>
  /\ sel \in SelectableNames(cache[s])
  /\ LET L == EnsureListener(s)
         id == NameToId(cache[s], sel)
         act == [active EXCEPT ![s] = L.active]
         q == [snapq EXCEPT ![s] = L.snapq]
     IN /\ unsub' = [unsub EXCEPT ![s] = L.unsub]
        /\ active' = act
        /\ store' = DocDelete(store, id)
        /\ snapq' = IF id \in DOMAIN store THEN Notify(q, act, store') ELSE q
        /\ ev' = Event("delete", s, id, sel, 0, 0, <<"delete">>, "ok")
  /\ UNCHANGED <<nextId, edits, cache, pc, req>>

\* on_snapshot, lines 183-204, run by the store's client for the oldest
\* snapshot on its way: items_data is replaced by the snapshot's rows and the
\* script is rerun, which runs the screen of the option m selected then.
Deliver(s, m) ==
  /\ active[s] # {}
  /\ snapq[s] # <<>>
  /\ HandleLeft(s, m)
  /\ cache' = [cache EXCEPT ![s] = OnSnapshotRows(Head(snapq[s]))]
  /\ LET L == RenderScreen(s, m)
     IN /\ unsub' = [unsub EXCEPT ![s] = L.unsub]
        /\ active' = [active EXCEPT ![s] = L.active]
        /\ snapq' = [snapq EXCEPT ![s] = Tail(L.snapq)]
  /\ ev' = Quiet
  /\ UNCHANGED <<store, nextId, edits, pc, req>>

DeliverAny(s) == \E m \in MenuOptions : Deliver(s, m)

SessionStep(s, NS, OS) ==
  \/ \E m \in MenuOptions : RunScreen(s, m)
  \/ \E n \in NS, o \in OS : AddSubmit(s, n, o.stock, o.precio, o.costo)
  \/ AddWrite(s)
  \/ \E sel \in SelectableNames(cache[s]), n \in NS, o \in OS :
       EditSubmit(s, sel, n, o.stock, o.precio, o.costo)
  \/ EditWrite(s)
  \/ \E sel \in SelectableNames(cache[s]) : DeleteConfirm(s, sel)
  \/ DeliverAny(s)

\* Several sessions on one collection.
Next == \E s \in Sessions : SessionStep(s, PlainNames, PlainOffers)

Spec == Init /\ [][Next]_vars

\* One session, no other writer, names of every kind.
NextSolo == SessionStep(Solo, Names, PlainOffers)

SpecSolo == Init /\ [][NextSolo]_vars

\* One session, no other writer, offers of every kind.
NextForms == SessionStep(Solo, PlainNames, Offers)

SpecForms == Init /\ [][NextForms]_vars

\* The store's client delivers every snapshot it has queued.
FairSpec == Spec /\ \A s \in Sessions : WF_vars(DeliverAny(s))

TypeOK ==
  /\ DOMAIN store \subseteq Ids
  /\ nextId \in 1..(MaxDocs + 1)
  /\ edits \in 0..MaxEdits
  /\ unsub \in [Sessions -> {0} \cup Handles]
  /\ active \in [Sessions -> SUBSET Handles]
  /\ pc \in [Sessions -> {"idle", "add_write", "edit_write"}]

\* ------------------------------------------------------------- claims
IsSubmit(e) == e.op \in {"add_submit", "edit_submit"}

Live(st) == DOMAIN st

\* C1 (as stated): an add that reaches add_item_firestore with a name whose
\* trimmed form is the name of a stored product fails as a duplicate and
\* leaves the store as it was.
C1_TrimmedDuplicateAddFails ==
  [][(/\ ev'.op = "add_submit"
      /\ ev'.result # "invalid"
      /\ \E i \in Live(store) : store[i].nombre = Trim(ev'.nombre))
     => (ev'.result = "duplicate" /\ store' = store /\ pc' = pc)]_vars

\* C2 (as stated): no two live products have the same name, in every
\* reachable state of several sessions whose adds and edits are a query
\* followed by a separate write.
C2_UniqueNames ==
  \A i, j \in Live(store) : i # j => store[i].nombre # store[j].nombre

\* C3 (as stated): an edit that reaches update_item_firestore and keeps the
\* stored name of its own product is not rejected as a duplicate,
\* an edit to the name of a product with another id is rejected and changes
\* nothing, and the write of an edit puts the submitted name, stock, price
\* and cost in the product and changes no other product.
C3_EditExcludesOwnId ==
  [][/\ (IsSubmit(ev') /\ ev'.op = "edit_submit" /\ ev'.result # "invalid")
        => /\ (ev'.id \in Live(store) /\ store[ev'.id].nombre = ev'.nombre)
                => (ev'.result = "pending" /\ pc'[ev'.s] = "edit_write")
           /\ (\E j \in Live(store) : j # ev'.id /\ store[j].nombre = ev'.nombre)
                => (ev'.result = "duplicate" /\ store' = store /\ pc' = pc)
     /\ (ev'.op = "edit_write" /\ ev'.id \in Live(store))
        => /\ ev'.result = "ok"
           /\ Live(store') = Live(store)
           /\ store'[ev'.id] = [nombre |-> req[ev'.s].nombre, stock |-> req[ev'.s].stock,
                                precio |-> req[ev'.s].precio, costo |-> req[ev'.s].costo]
           /\ \A j \in Live(store) \ {ev'.id} : store'[j] = store[j]]_vars

\* C4: a submission of the add or the edit form with an empty name, a price
\* <= 0 or a cost < 0 is rejected with no store call issued (no query, no
\* write, no subscription), no write left pending and the store unchanged.
C4_InvalidBeforeStore ==
  [][(IsSubmit(ev') /\ (ev'.nombre = <<>> \/ ev'.precio <= 0 \/ ev'.costo < 0))
     => (/\ ev'.result = "invalid"
         /\ ev'.calls = <<>>
         /\ UNCHANGED <<store, nextId, edits, unsub, active, snapq, cache, pc, req>>)]_vars

\* A rejected submission in a store that holds a product.
C4_Witness ==
  /\ IsSubmit(ev)
  /\ ev.result = "invalid"
  /\ ev.precio <= 0
  /\ ev.nombre # <<>>
  /\ Live(store) # {}

\* C5 (as stated): a submission with price < cost fails, and every stored
\* product has price >= cost.
C5_PriceNotBelowCost ==
  /\ (IsSubmit(ev) /\ ev.precio < ev.costo) => ev.result = "invalid"
  /\ \A i \in Live(store) : store[i].precio >= store[i].costo

\* C5 (amended): a submission with price <= 0 or cost < 0 fails, and every
\* stored product has price > 0 and cost >= 0.
C5_PricePositive ==
  /\ (IsSubmit(ev) /\ (ev.precio <= 0 \/ ev.costo < 0)) => ev.result = "invalid"
  /\ \A i \in Live(store) : store[i].precio > 0 /\ store[i].costo >= 0
  /\ \A s \in Sessions : pc[s] # "idle" => (req[s].precio > 0 /\ req[s].costo >= 0)

\* A price of zero has just been rejected while a product priced below its
\* cost is stored.
C5_Witness ==
  /\ IsSubmit(ev)
  /\ ev.precio <= 0
  /\ ev.result = "invalid"
  /\ \E i \in Live(store) : store[i].precio < store[i].costo

\* C6 (as stated): a submission whose name is empty after trimming fails,
\* and no stored name is empty or has leading or trailing whitespace.
C6_NamesTrimmed ==
  /\ (IsSubmit(ev) /\ Trim(ev.nombre) = <<>>) => ev.result = "invalid"
  /\ \A i \in Live(store) :
       store[i].nombre # <<>> /\ Trim(store[i].nombre) = store[i].nombre

\* C7: the write of an edit whose id is not in the store fails and leaves the
\* store as it was, and no step brings a deleted id back.
C7_UpdateAbsentFails ==
  [][/\ (ev'.op = "edit_write" /\ ev'.id \notin Live(store))
        => (ev'.result = "error" /\ store' = store)
     /\ \A i \in Ids : (i < nextId /\ i \notin Live(store)) => i \notin Live(store')]_vars

\* An edit of a product that another session deleted, picked from the
\* editing session's stale cache, has just failed.
C7_Witness ==
  /\ ev.op = "edit_write"
  /\ ev.result = "error"
  /\ ev.id \notin Live(store)
  /\ \E k \in 1..Len(cache[ev.s]) : cache[ev.s][k].id = ev.id

\* C8: whether an add or an edit that reaches the store is rejected as a
\* duplicate is decided by the store's contents at its name query alone:
\* an add exactly when the store holds the name, an edit exactly when a
\* document with another id holds it.
C8_DecisionFromStore ==
  [][/\ (ev'.op = "add_submit" /\ ev'.result # "invalid")
        => (ev'.result = "duplicate"
              <=> \E i \in Live(store) : store[i].nombre = ev'.nombre)
     /\ (ev'.op = "edit_submit" /\ ev'.result # "invalid")
        => (ev'.result = "duplicate"
              <=> \E i \in Live(store) : i # ev'.id /\ store[i].nombre = ev'.nombre)]_vars

\* A session with a recorded listener whose cache lacks the name has had its
\* add of that name rejected.
C8_Witness ==
  /\ ev.op = "add_submit"
  /\ ev.result = "duplicate"
  /\ active[ev.s] # {}
  /\ unsub[ev.s] # 0
  /\ ev.nombre \notin SelectableNames(cache[ev.s])

\* The cache holds one row per stored document, with its id and fields, and
\* nothing else.
CacheCurrent(s) ==
  /\ Len(cache[s]) = Cardinality(Live(store))
  /\ \A k \in 1..Len(cache[s]) :
       /\ cache[s][k].id \in Live(store)
       /\ store[cache[s][k].id] =
            [nombre |-> cache[s][k].nombre, stock |-> cache[s][k].stock,
             precio |-> cache[s][k].precio, costo |-> cache[s][k].costo]
  /\ \A i \in Live(store) : \E k \in 1..Len(cache[s]) : cache[s][k].id = i

\* C9: under fair delivery of snapshots, if a session keeps an active
\* listener and the store stops changing, the session's cache ends up equal
\* to the store's contents and stays so.
C9_CacheConverges ==
  \A s \in Sessions :
    (<>[](active[s] # {}) /\ <>[][FALSE]_store) => <>[]CacheCurrent(s)

\* A session's cache is current after a product was added and one deleted.
C9_Witness ==
  \E s \in Sessions :
    /\ active[s] # {}
    /\ snapq[s] = <<>>
    /\ CacheCurrent(s)
    /\ Live(store) # {}
    /\ \E i \in Ids : i < nextId /\ i \notin Live(store)

\* C10: a session never holds more than one subscription, and the one it
\* holds is the recorded one.
C10_OneListener ==
  \A s \in Sessions :
    /\ Cardinality(active[s]) <= 1
    /\ active[s] = IF unsub[s] = 0 THEN {} ELSE {unsub[s]}

\* Both sessions listen, one has had a snapshot delivered and has another
\* on its way.
C10_Witness ==
  /\ \A s \in Sessions : active[s] # {}
  /\ \E s \in Sessions : cache[s] # <<>> /\ snapq[s] # <<>>

====
